---- MODULE Spec2Model ----
(***************************************************************************)
(* Model of unstructured/documents/elements.py: the element taxonomy       *)
(* (Element, CheckBox, Text and its subclasses), construction with         *)
(* content-derived ids, equality, and Text.apply's cleaning pipeline.      *)
(***************************************************************************)
EXTENDS Integers, Sequences, FiniteSets, TLC

(***************************************************************************)
(* Python values.  A value is a record [type, v]; strings are sequences of *)
(* code points, so that the cleaners below compute on real characters.     *)
(***************************************************************************)
PyStr(s) == [type |-> "str", v |-> s]
PyInt(n) == [type |-> "int", v |-> <<n>>]
PyNone == [type |-> "NoneType", v |-> <<>>]
PyList(xs) == [type |-> "list", v |-> xs]

\* isinstance(x, str) and friends: the model's values carry their exact type.
IsInstance(x, t) == x.type = t

\* Identifier values (element_id / self.id): a str, written as a TLA+ string,
\* or an instance of the marker class NoID.
IdStr(s) == [type |-> "str", v |-> s]
NoID == [type |-> "NoID", v |-> ""]

(***************************************************************************)
(* The texts the model constructs elements from, and the page-break        *)
(* sentinel.                                                               *)
(***************************************************************************)
TxtHiPadded == <<32, 72, 105, 32>>                \* " Hi "
TxtHi == <<104, 105>>                             \* "hi"
PAGE_BREAK == <<60, 80, 65, 71, 69, 32, 66, 82, 69, 65, 75, 62>>  \* "<PAGE BREAK>"
PageBreakLower == <<60, 112, 97, 103, 101, 32, 98, 114, 101, 97, 107, 62>>

\* Inputs of the constructors.
Texts == {PyStr(TxtHiPadded), PyStr(TxtHi)}
ElementIds == {NoID, IdStr("id-1")}
CoordinateArgs == {PyNone, PyList(<<10, 20>>)}

(***************************************************************************)
(* text.encode(): UTF-8.  One byte below U+0080, two bytes below U+0800.   *)
(***************************************************************************)
RECURSIVE Utf8Encode(_)
Utf8Encode(s) ==
    IF s = <<>> THEN <<>>
    ELSE LET c == Head(s)
         IN (IF c < 128 THEN <<c>>
             ELSE <<192 + (c \div 64), 128 + (c % 64)>>) \o Utf8Encode(Tail(s))

(***************************************************************************)
(* hashlib.sha256(bytes).hexdigest()[:32], tabulated with the real digests *)
(* of every text the cleaners below can produce from the inputs.           *)
(***************************************************************************)
Sha256Hex32(bytes) ==
    CASE bytes = <<32, 72, 105, 32>> -> "a468749412266412b61c9eaeb85184bb"
      [] bytes = <<32, 104, 105, 32>> -> "06609d40cccea025cf3500b3a86330ed"
      [] bytes = <<72, 105>> -> "3639efcd08abb273b1619e82e78c29a7"
      [] bytes = <<104, 105>> -> "8f434346648f6b96df89dda901c5176b"
      [] bytes = <<49>> -> "6b86b273ff34fce19d6b804eff5a3f57"
      [] bytes = <<50>> -> "d4735e3a265e16eee03f59718b9b5d03"
      [] bytes = <<52>> -> "4b227777d4dd1fc61c6f884f48641d02"
      [] bytes = <<49, 50>> -> "6b51d431df5d7f141cbececcf79edf3d"
      [] bytes = PAGE_BREAK -> "5ea24028ea5addabb8f07dfff681501d"
      [] bytes = PageBreakLower -> "68156ce1d225e23184075d8327d47126"

(***************************************************************************)
(* Cleaners: the callables a caller passes to apply.  Calling one either   *)
(* returns a value or raises; exc = "" means it returned.                  *)
(***************************************************************************)
Returned(x) == [exc |-> "", value |-> x]
Raised(e) == [exc |-> e, value |-> PyNone]

IsSpace(c) == c \in {9, 10, 11, 12, 13, 28, 29, 30, 31, 32}

RECURSIVE LStrip(_)
LStrip(s) == IF s # <<>> /\ IsSpace(Head(s)) THEN LStrip(Tail(s)) ELSE s

RECURSIVE RStrip(_)
RStrip(s) ==
    IF s # <<>> /\ IsSpace(s[Len(s)]) THEN RStrip(SubSeq(s, 1, Len(s) - 1)) ELSE s

Strip(s) == RStrip(LStrip(s))

Lower(s) == [i \in 1..Len(s) |-> IF s[i] \in 65..90 THEN s[i] + 32 ELSE s[i]]

RECURSIVE Decimal(_)
Decimal(n) == IF n < 10 THEN <<48 + n>> ELSE Decimal(n \div 10) \o <<48 + (n % 10)>>

Cleaners == {"str.strip", "str.lower", "len", "str", "reject"}

\* cleaner(cleaned_text)
CallCleaner(c, x) ==
    CASE c = "str.strip" ->
           IF IsInstance(x, "str") THEN Returned(PyStr(Strip(x.v))) ELSE Raised("TypeError")
      [] c = "str.lower" ->
           IF IsInstance(x, "str") THEN Returned(PyStr(Lower(x.v))) ELSE Raised("TypeError")
      [] c = "len" ->
           IF IsInstance(x, "str") THEN Returned(PyInt(Len(x.v))) ELSE Raised("TypeError")
      [] c = "str" ->
           IF IsInstance(x, "str") THEN Returned(x)
           ELSE IF IsInstance(x, "int") THEN Returned(PyStr(Decimal(x.v[1])))
           ELSE Returned(PyStr(<<78, 111, 110, 101>>))
      [] c = "reject" -> Raised("RuntimeError")

MaxCleaners == 2

RECURSIVE SeqsUpTo(_, _)
SeqsUpTo(S, n) ==
    IF n = 0 THEN {<<>>}
    ELSE LET shorter == SeqsUpTo(S, n - 1)
         IN shorter \cup {Append(q, x) : q \in shorter, x \in S}

CleanerSeqs == SeqsUpTo(Cleaners, MaxCleaners)

(***************************************************************************)
(* Classes.                                                                *)
(***************************************************************************)
TextSubclasses ==
    {"FigureCaption", "NarrativeText", "ListItem", "Title", "Address", "Image", "PageBreak"}
TextClasses == {"Text"} \cup TextSubclasses

\* The class attribute `category` of Text and of each subclass.
Category(cls) ==
    CASE cls = "Text" -> "Uncategorized"
      [] cls = "FigureCaption" -> "FigureCaption"
      [] cls = "NarrativeText" -> "NarrativeText"
      [] cls = "ListItem" -> "ListItem"
      [] cls = "Title" -> "Title"
      [] cls = "Address" -> "Address"
      [] cls = "Image" -> "Image"
      [] cls = "PageBreak" -> "PageBreak"

\* issubclass(c, d) for c # d
IsProperSubclass(c, d) ==
    \/ d = "Element" /\ c \in TextClasses \cup {"CheckBox"}
    \/ d = "Text" /\ c \in TextSubclasses

\* An object of class cls before __init__ has set anything.
NewObject(cls) ==
    [cls |-> cls, attrs |-> {}, id |-> NoID, coordinates |-> PyNone,
     text |-> PyNone, checked |-> FALSE]

\* hasattr(e, name): instance attributes set by __init__, or class attributes.
HasAttr(e, name) ==
    \/ name \in e.attrs
    \/ name = "category" /\ e.cls \in TextClasses

\* Element.__init__(self, element_id, coordinates)
Element_init(self, element_id, coordinates) ==
    [self EXCEPT !.id = element_id, !.coordinates = coordinates,
                 !.attrs = @ \cup {"id", "coordinates"}]

\* CheckBox.__init__(self, element_id, coordinates, checked)
CheckBox_init(self, element_id, coordinates, checked) ==
    [self EXCEPT !.id = element_id, !.coordinates = coordinates, !.checked = checked,
                 !.attrs = @ \cup {"id", "coordinates", "checked"}]

\* A constructor that ignores an explicit element_id and always hashes.
Text_initAlwaysHash(self, text, element_id, coordinates) ==
    Element_init([self EXCEPT !.text = text, !.attrs = @ \cup {"text"}],
                 IdStr(Sha256Hex32(Utf8Encode(text.v))), PyNone)

\* Text.__init__(self, text, element_id, coordinates).  The call to
\* super().__init__ passes element_id only, so Element.__init__ receives its
\* default coordinates=None.
Text_init(self, text, element_id, coordinates) ==
    LET withText == [self EXCEPT !.text = text, !.attrs = @ \cup {"text"}]
        eid == IF IsInstance(element_id, "NoID")
               THEN IdStr(Sha256Hex32(Utf8Encode(text.v)))
               ELSE element_id
    IN Element_init(withText, eid, PyNone)

\* A page break built from a different sentinel.
PageBreak_initLower(self) == Text_init(self, PyStr(PageBreakLower), NoID, PyNone)

\* PageBreak.__init__(self)
PageBreak_init(self) == Text_init(self, PyStr(PAGE_BREAK), NoID, PyNone)

(***************************************************************************)
(* Equality.  The result of `a == b` is "True", "False", or the name of    *)
(* the exception the evaluation raises.                                    *)
(***************************************************************************)
PyBool(b) == IF b THEN "True" ELSE "False"

\* CheckBox.__eq__(self, other): reads other.checked, then (if the first
\* operand of `and` is true) other.coordinates.
CheckBox_eq(self, other) ==
    IF ~HasAttr(other, "checked") THEN "AttributeError"
    ELSE IF self.checked # other.checked THEN "False"
    ELSE IF ~HasAttr(other, "coordinates") THEN "AttributeError"
    ELSE PyBool(self.coordinates = other.coordinates)

\* An equality that also compares the ids.
Text_eqWithId(self, other) ==
    IF ~HasAttr(other, "text") THEN "AttributeError"
    ELSE PyBool(/\ self.text = other.text
                /\ self.coordinates = other.coordinates
                /\ Category(self.cls) = Category(other.cls)
                /\ self.id = other.id)

\* Text.__eq__(self, other): the list passed to all() is built first, reading
\* other.text, other.coordinates and other.category in that order.
Text_eq(self, other) ==
    IF ~HasAttr(other, "text") THEN "AttributeError"
    ELSE IF ~HasAttr(other, "coordinates") THEN "AttributeError"
    ELSE IF ~HasAttr(other, "category") THEN "AttributeError"
    ELSE PyBool(/\ self.text = other.text
                /\ self.coordinates = other.coordinates
                /\ Category(self.cls) = Category(other.cls))

\* type(self).__eq__ by method resolution: CheckBox defines its own, Text and
\* every subclass of Text use Text.__eq__.
DunderEq(self, other) ==
    IF self.cls = "CheckBox" THEN CheckBox_eq(self, other) ELSE Text_eq(self, other)

\* The expression `a == b`: the right operand's method runs first when its
\* class is a proper subclass of the left operand's; neither method returns
\* NotImplemented, so the first call decides.
RichCompareEq(a, b) ==
    IF IsProperSubclass(b.cls, a.cls) THEN DunderEq(b, a) ELSE DunderEq(a, b)

(***************************************************************************)
(* State.                                                                  *)
(*   els    the elements the program holds, by slot                        *)
(*   frame  the activation of Text.apply: its position, its locals, and    *)
(*          how it ended                                                   *)
(*   cmp    the last evaluation of `a == b` and `b == a`                   *)
(*   ghost  per slot, the constructor's arguments (text, element_id,       *)
(*          coordinates), the object's text, id and category right after   *)
(*          construction, and whether apply was ever called on it          *)
(*          (history, not program state)                                   *)
(*   script the statements a caller still has to run, and how the ones it  *)
(*          ran ended (used by SpecAssoc only)                             *)
(***************************************************************************)
VARIABLES els, frame, cmp, ghost, script

vars == <<els, frame, cmp, ghost, script>>

Slots == DOMAIN els

TextBearing(e) == e.cls \in TextClasses

IdleFrame ==
    [pc |-> "idle", slot |-> 0, cleaners |-> <<>>, i |-> 0,
     cleaned_text |-> PyNone, pre |-> PyNone, nonstr |-> 0, exc |-> ""]

NoCmp ==
    [done |-> FALSE, a |-> NewObject("Element"), b |-> NewObject("Element"),
     ab |-> "", ba |-> "", same |-> FALSE, fresh |-> FALSE]

NoScript == [todo |-> <<>>, log |-> <<>>]

\* A slot no object has been bound to yet.
Unbound == NewObject("NoneType")
Bound(s) == els[s] # Unbound

GhostOf(e, text, element_id, coordinates) ==
    [text |-> text, element_id |-> element_id, coordinates |-> coordinates,
     text0 |-> e.text, id |-> e.id, category |-> IF TextBearing(e) THEN Category(e.cls) ELSE "",
     applied |-> FALSE]

\* The objects a program can build with one constructor call.
NewTexts ==
    {Text_init(NewObject(cls), t, id, c) :
        cls \in TextClasses \ {"PageBreak"}, t \in Texts,
        id \in ElementIds, c \in CoordinateArgs}

NewCheckBoxes ==
    {CheckBox_init(NewObject("CheckBox"), id, c, k) :
        id \in ElementIds, c \in CoordinateArgs, k \in BOOLEAN}

NewObjects == NewTexts \cup NewCheckBoxes \cup {PageBreak_init(NewObject("PageBreak"))}

(***************************************************************************)
(* Construction.                                                           *)
(***************************************************************************)
\* No call of apply is running.
Quiet == frame.pc # "loop"

\* The caller is between statements: the last call's frame is gone and the
\* last comparison's value has been dropped.
Idle == frame.pc = "idle" /\ ~cmp.done

ConstructText(s, cls, text, element_id, coordinates) ==
    /\ Idle
    /\ ~Bound(s)
    /\ LET e == Text_init(NewObject(cls), text, element_id, coordinates)
       IN /\ els' = [els EXCEPT ![s] = e]
          /\ ghost' = [ghost EXCEPT ![s] = GhostOf(e, text, element_id, coordinates)]
    /\ frame' = IdleFrame
    /\ cmp' = NoCmp
    /\ UNCHANGED script

ConstructPageBreak(s) ==
    /\ Idle
    /\ ~Bound(s)
    /\ LET e == PageBreak_init(NewObject("PageBreak"))
       IN /\ els' = [els EXCEPT ![s] = e]
          /\ ghost' = [ghost EXCEPT ![s] = GhostOf(e, PyNone, NoID, PyNone)]
    /\ frame' = IdleFrame
    /\ cmp' = NoCmp
    /\ UNCHANGED script

ConstructCheckBox(s, element_id, coordinates, checked) ==
    /\ Idle
    /\ ~Bound(s)
    /\ LET e == CheckBox_init(NewObject("CheckBox"), element_id, coordinates, checked)
       IN /\ els' = [els EXCEPT ![s] = e]
          /\ ghost' = [ghost EXCEPT ![s] = GhostOf(e, PyNone, element_id, coordinates)]
    /\ frame' = IdleFrame
    /\ cmp' = NoCmp
    /\ UNCHANGED script

(***************************************************************************)
(* Text.apply(self, *cleaners), one step per loop iteration.  Python runs  *)
(* one call at a time, so nothing else happens while frame.pc = "loop".    *)
(*   frame.pre     self.text when the call began (history)                 *)
(*   frame.nonstr  position of the first cleaner that returned a           *)
(*                 non-string, 0 if none has (history)                     *)
(***************************************************************************)
ApplyCall(s, cleaners) ==
    /\ Quiet
    /\ TextBearing(els[s])
    /\ frame' = [pc |-> "loop", slot |-> s, cleaners |-> cleaners, i |-> 1,
                 cleaned_text |-> els[s].text, pre |-> els[s].text,
                 nonstr |-> 0, exc |-> ""]
    /\ ghost' = [ghost EXCEPT ![s].applied = TRUE]
    /\ cmp' = NoCmp
    /\ UNCHANGED els

\* A loop body that stores every string result into self.text as it goes.
LoopStepWriteThrough(fr, e) ==
    LET r == CallCleaner(fr.cleaners[fr.i], fr.cleaned_text)
    IN IF r.exc # ""
       THEN [frame |-> [fr EXCEPT !.pc = "raised", !.exc = r.exc], el |-> e]
       ELSE [frame |-> [fr EXCEPT !.cleaned_text = r.value, !.i = @ + 1,
                                  !.nonstr = IF @ = 0 /\ ~IsInstance(r.value, "str")
                                             THEN fr.i ELSE @],
             el |-> IF IsInstance(r.value, "str") THEN [e EXCEPT !.text = r.value] ELSE e]

\* A loop body that hands every cleaner self.text instead of the previous result.
LoopStepFromSelfText(fr, e) ==
    LET r == CallCleaner(fr.cleaners[fr.i], e.text)
    IN IF r.exc # ""
       THEN [frame |-> [fr EXCEPT !.pc = "raised", !.exc = r.exc], el |-> e]
       ELSE [frame |-> [fr EXCEPT !.cleaned_text = r.value, !.i = @ + 1,
                                  !.nonstr = IF @ = 0 /\ ~IsInstance(r.value, "str")
                                             THEN fr.i ELSE @],
             el |-> e]

\* for cleaner in cleaners: cleaned_text = cleaner(cleaned_text)
\* An exception raised by the cleaner leaves apply at once.
LoopStep(fr, e) ==
    LET r == CallCleaner(fr.cleaners[fr.i], fr.cleaned_text)
    IN IF r.exc # ""
       THEN [frame |-> [fr EXCEPT !.pc = "raised", !.exc = r.exc], el |-> e]
       ELSE [frame |-> [fr EXCEPT !.cleaned_text = r.value, !.i = @ + 1,
                                  !.nonstr = IF @ = 0 /\ ~IsInstance(r.value, "str")
                                             THEN fr.i ELSE @],
             el |-> e]

\* An epilogue that assigns self.text before it checks the type.
CheckStepStoreFirst(fr, e) ==
    IF ~IsInstance(fr.cleaned_text, "str")
    THEN [frame |-> [fr EXCEPT !.pc = "raised", !.exc = "ValueError"],
          el |-> [e EXCEPT !.text = fr.cleaned_text]]
    ELSE [frame |-> [fr EXCEPT !.pc = "returned"],
          el |-> [e EXCEPT !.text = fr.cleaned_text]]

\* An epilogue that derives the id again from the cleaned text.
CheckStepRehash(fr, e) ==
    IF ~IsInstance(fr.cleaned_text, "str")
    THEN [frame |-> [fr EXCEPT !.pc = "raised", !.exc = "ValueError"], el |-> e]
    ELSE [frame |-> [fr EXCEPT !.pc = "returned"],
          el |-> [e EXCEPT !.text = fr.cleaned_text,
                           !.id = IdStr(Sha256Hex32(Utf8Encode(fr.cleaned_text.v)))]]

\* if not isinstance(cleaned_text, str): raise ValueError(...)
\* self.text = cleaned_text
CheckStep(fr, e) ==
    IF ~IsInstance(fr.cleaned_text, "str")
    THEN [frame |-> [fr EXCEPT !.pc = "raised", !.exc = "ValueError"], el |-> e]
    ELSE [frame |-> [fr EXCEPT !.pc = "returned"],
          el |-> [e EXCEPT !.text = fr.cleaned_text]]

ApplyLoop ==
    /\ frame.pc = "loop"
    /\ frame.i <= Len(frame.cleaners)
    /\ LET next == LoopStep(frame, els[frame.slot])
       IN /\ frame' = next.frame
          /\ els' = [els EXCEPT ![frame.slot] = next.el]
    /\ UNCHANGED <<cmp, ghost>>

ApplyCheck ==
    /\ frame.pc = "loop"
    /\ frame.i > Len(frame.cleaners)
    /\ LET next == CheckStep(frame, els[frame.slot])
       IN /\ frame' = next.frame
          /\ els' = [els EXCEPT ![frame.slot] = next.el]
    /\ UNCHANGED <<cmp, ghost>>

(***************************************************************************)
(* A caller evaluates `els[s] == other` and `other == els[s]`, where other *)
(* is a newly built object or els[s] itself.                               *)
(***************************************************************************)
Compare(s, other, same) ==
    /\ Idle
    /\ Bound(s)
    /\ same => other = els[s]
    /\ cmp' = [done |-> TRUE, a |-> els[s], b |-> other,
               ab |-> RichCompareEq(els[s], other),
               ba |-> RichCompareEq(other, els[s]),
               same |-> same, fresh |-> ~ghost[s].applied]
    /\ UNCHANGED <<els, frame, ghost, script>>

\* The statement is over: apply has returned or its exception has been
\* handled, or the value of the comparison has been used.
Return ==
    /\ Quiet
    /\ ~Idle
    /\ frame' = IdleFrame
    /\ cmp' = NoCmp
    /\ UNCHANGED <<els, ghost, script>>

(***************************************************************************)
(* The program: bind an element to the slot, then clean and compare it in  *)
(* any order.                                                              *)
(***************************************************************************)
Init ==
    /\ els = <<Unbound>>
    /\ ghost = <<GhostOf(Unbound, PyNone, NoID, PyNone)>>
    /\ frame = IdleFrame
    /\ cmp = NoCmp
    /\ script = NoScript

Next ==
    \/ \E s \in Slots, cls \in TextClasses \ {"PageBreak"}, t \in Texts,
          id \in ElementIds, c \in CoordinateArgs : ConstructText(s, cls, t, id, c)
    \/ \E s \in Slots : ConstructPageBreak(s)
    \/ \E s \in Slots, id \in ElementIds, c \in CoordinateArgs, k \in BOOLEAN :
          ConstructCheckBox(s, id, c, k)
    \/ \E s \in Slots, cs \in CleanerSeqs :
          Idle /\ ApplyCall(s, cs) /\ UNCHANGED script
    \/ ApplyLoop /\ UNCHANGED script
    \/ ApplyCheck /\ UNCHANGED script
    \/ \E s \in Slots, other \in NewObjects : Compare(s, other, FALSE)
    \/ \E s \in Slots : Compare(s, els[s], TRUE)
    \/ Return

Spec == Init /\ [][Next]_vars

(***************************************************************************)
(* A caller that builds two elements from the same arguments and runs      *)
(*     els[1].apply(f, g)                                                  *)
(*     els[2].apply(f); els[2].apply(g)                                    *)
(* An exception ends the run of the element it was raised on.              *)
(***************************************************************************)
Aborted(st) == frame.pc = "raised" /\ frame.slot = st.slot

ScriptCall ==
    /\ script.todo # <<>>
    /\ ~Aborted(Head(script.todo))
    /\ ApplyCall(Head(script.todo).slot, Head(script.todo).cleaners)
    /\ script' = [todo |-> Tail(script.todo),
                  log |-> IF frame.pc \in {"returned", "raised"}
                          THEN Append(script.log, [slot |-> frame.slot, pc |-> frame.pc])
                          ELSE script.log]

ScriptDone ==
    /\ Quiet
    /\ script.todo # <<>> => Aborted(Head(script.todo))

PairScript(f, g) ==
    [todo |-> <<[slot |-> 1, cleaners |-> <<f, g>>],
                [slot |-> 2, cleaners |-> <<f>>],
                [slot |-> 2, cleaners |-> <<g>>]>>,
     log |-> <<>>]

InitAssoc ==
    /\ \/ \E cls \in TextClasses \ {"PageBreak"}, t \in Texts,
             id \in ElementIds, c \in CoordinateArgs :
             LET e == Text_init(NewObject(cls), t, id, c)
             IN /\ els = <<e, e>>
                /\ ghost = <<GhostOf(e, t, id, c), GhostOf(e, t, id, c)>>
       \/ LET e == PageBreak_init(NewObject("PageBreak"))
          IN /\ els = <<e, e>>
             /\ ghost = <<GhostOf(e, PyNone, NoID, PyNone), GhostOf(e, PyNone, NoID, PyNone)>>
    /\ frame = IdleFrame
    /\ cmp = NoCmp
    /\ \E f \in Cleaners, g \in Cleaners : script = PairScript(f, g)

NextAssoc ==
    \/ ScriptCall
    \/ ApplyLoop /\ UNCHANGED script
    \/ ApplyCheck /\ UNCHANGED script

SpecAssoc == InitAssoc /\ [][NextAssoc]_vars

(***************************************************************************)
(* Properties.                                                             *)
(***************************************************************************)
IsText(e) == e # Unbound /\ TextBearing(e)

Finished == frame.pc \in {"returned", "raised"}

\* The element apply is running on, or last ran on.
Target == els[frame.slot]

\* The value the cleaners cs produce from x, each consuming the previous result.
RECURSIVE Fold(_, _)
Fold(cs, x) == IF cs = <<>> THEN x ELSE Fold(Tail(cs), CallCleaner(Head(cs), x).value)

\* C1: whenever a cleaner at any position of the sequence has returned a
\* non-string value (and no cleaner threw), apply ends by raising the
\* non-string-output error; it never completes normally.
C1_NonStringOutputRaises ==
    (Finished /\ frame.nonstr > 0 /\ frame.i > Len(frame.cleaners))
        => (frame.pc = "raised" /\ frame.exc = "ValueError")

C3_CrossVariantEqualityIsFalse ==
    (cmp.done /\ (\/ cmp.a.cls = "CheckBox" /\ TextBearing(cmp.b)
                  \/ TextBearing(cmp.a) /\ cmp.b.cls = "CheckBox"))
        => (cmp.ab = "False" /\ cmp.ba = "False")

\* C4: a text-bearing element built by a constructor that takes arguments
\* has the coordinates the constructor was given (None only when none were).
C4_CoordinatesStored ==
    \A s \in Slots :
        (IsText(els[s]) /\ els[s].cls # "PageBreak")
            => els[s].coordinates = ghost[s].coordinates

\* C5: during and after every apply call, whatever its cleaners and however
\* it ends, the element's id and category are the ones it had right after
\* construction.
C5_ApplyKeepsIdAndCategory ==
    \A s \in Slots :
        (IsText(els[s]) /\ ghost[s].applied)
            => /\ els[s].id = ghost[s].id
               /\ Category(els[s].cls) = ghost[s].category

\* apply has returned with a changed text on an element whose id was derived
\* from its text; the id is still the digest of the old text.
C5_Witness ==
    /\ frame.pc = "returned"
    /\ ghost[frame.slot].element_id = NoID
    /\ Target.text # ghost[frame.slot].text0
    /\ Target.id # IdStr(Sha256Hex32(Utf8Encode(Target.text.v)))

\* C6: for text-bearing a and b, a == b is a boolean, true exactly when text,
\* coordinates and category agree (ids play no part); b == a gives the same,
\* and an element equals itself.
C6_TextEquality ==
    (cmp.done /\ TextBearing(cmp.a) /\ TextBearing(cmp.b))
        => /\ cmp.ab \in {"True", "False"}
           /\ cmp.ab = "True" <=> (/\ cmp.a.text = cmp.b.text
                                    /\ cmp.a.coordinates = cmp.b.coordinates
                                    /\ Category(cmp.a.cls) = Category(cmp.b.cls))
           /\ cmp.ba = cmp.ab
           /\ cmp.same => cmp.ab = "True"

\* A cleaned element compared equal to a new element that carries another id.
C6_Witness ==
    /\ cmp.done /\ TextBearing(cmp.a) /\ TextBearing(cmp.b)
    /\ ~cmp.fresh /\ ~cmp.same
    /\ cmp.a.id # cmp.b.id
    /\ cmp.ab = "True"

\* C8: a text-bearing element's id is the explicit element_id when one was
\* given, otherwise the digest of the text it was constructed with; it is
\* never the NoID marker, also after apply calls.
C8_IdentityFromConstruction ==
    \A s \in Slots :
        IsText(els[s])
            => /\ els[s].id # NoID
               /\ ghost[s].element_id # NoID => els[s].id = ghost[s].element_id
               /\ ghost[s].element_id = NoID
                    => els[s].id = IdStr(Sha256Hex32(Utf8Encode(ghost[s].text0.v)))

\* An element built with an explicit id, after an apply call changed its text.
C8_Witness ==
    /\ frame.pc = "returned"
    /\ ghost[frame.slot].element_id # NoID
    /\ Target.text # ghost[frame.slot].text0
    /\ Target.id = ghost[frame.slot].element_id

\* C9: a page break takes no arguments; before any apply call its text is
\* "<PAGE BREAK>", its category "PageBreak" and its id the digest of the
\* sentinel, and it equals, with the same id, any other new page break.
C9_PageBreakSentinel ==
    \A s \in Slots :
        (els[s].cls = "PageBreak" /\ ~ghost[s].applied)
            => /\ ghost[s].text = PyNone
               /\ ghost[s].element_id = NoID
               /\ ghost[s].coordinates = PyNone
               /\ els[s].text = PyStr(PAGE_BREAK)
               /\ Category(els[s].cls) = "PageBreak"
               /\ els[s].id = IdStr(Sha256Hex32(Utf8Encode(PAGE_BREAK)))
               /\ (cmp.done /\ cmp.b.cls = "PageBreak")
                    => (cmp.ab = "True" /\ cmp.ba = "True" /\ cmp.a.id = cmp.b.id)

\* Two new page breaks, distinct objects, have been compared.
C9_Witness ==
    /\ cmp.done /\ cmp.fresh /\ ~cmp.same
    /\ cmp.a.cls = "PageBreak" /\ cmp.b.cls = "PageBreak"

\* C10: the element's text is the pre-call text for as long as apply runs
\* and after it raises, for whatever reason; only a call that returns has
\* written it, and then with the final string.
C10_ApplyAllOrNothing ==
    /\ frame.pc \in {"loop", "raised"} => Target.text = frame.pre
    /\ frame.pc = "returned"
         => /\ Target.text = frame.cleaned_text
            /\ IsInstance(Target.text, "str")

\* The second cleaner threw after the first had produced a different text.
C10_Witness ==
    /\ frame.pc = "raised" /\ frame.exc # "ValueError"
    /\ frame.i = 2
    /\ IsInstance(frame.cleaned_text, "str")
    /\ frame.cleaned_text # frame.pre

====
